---- MODULE Spec2Model ----
(***************************************************************************)
(* The four scripts of "Data preparation and topic": YouTubeCaptionUpdater, *)
(* YouTubeCommentExtractor, TopicModeling (TF-IDF + NMF) and                *)
(* TopicModelingBERT.  Each loads one JSON store                            *)
(*   author -> playlist -> video -> record                                  *)
(* in its constructor, enriches it in memory and writes the whole file      *)
(* back.  Python dicts keep insertion order, so a dict is a sequence of     *)
(* [k, v] entries; a video record is a function from its field names.       *)
(* Text values are sequences of one-character strings.                      *)
(***************************************************************************)
EXTENDS Integers, Sequences, FiniteSets, TLC

VARIABLES file, file0, pc, data, loaded, loadErr, saveCalls, saveErr, events,
          pos, attempts, fetched,
          queried, reqTokens, respTokens, pages, all_comments, next_page_token,
          captions_list, video_id_map, W, kmeans_labels, topic_keywords

vars == <<file, file0, pc, data, loaded, loadErr, saveCalls, saveErr, events,
          pos, attempts, fetched,
          queried, reqTokens, respTokens, pages, all_comments, next_page_token,
          captions_list, video_id_map, W, kmeans_labels, topic_keywords>>

commentVars == <<queried, reqTokens, respTokens, pages, all_comments, next_page_token>>
topicVars == <<captions_list, video_id_map, W, kmeans_labels, topic_keywords>>

\* ---------------------------------------------------------------- bounds
\* videos in the store of a script run alone
MaxVideos == 2
\* videos in the store two scripts run on at the same time
MaxShared == 1
\* pages the comments service returns for one video
MaxPages == 2
\* num_topics
NumTopics == 2

\* ---------------------------------------------------------------- scripts
Caption == "caption"
Comment == "comment"
Nmf == "nmf"
Bert == "bert"
Scripts == {Caption, Comment, Nmf, Bert}
Fetchers == {Caption, Comment}
Modelers == {Nmf, Bert}

\* ---------------------------------------------------------------- text
RECURSIVE Concat(_)
Concat(ss) == IF Len(ss) = 0 THEN <<>> ELSE Head(ss) \o Concat(Tail(ss))

\* "".join(parts): the separator left out
JoinNoSep(sep, parts) == Concat(parts)

RECURSIVE JoinWith(_, _)
\* sep.join(parts)
JoinWith(sep, parts) ==
    IF Len(parts) = 0 THEN <<>>
    ELSE IF Len(parts) = 1 THEN parts[1]
    ELSE parts[1] \o sep \o JoinWith(sep, Tail(parts))

IsSpace(c) == c \in {" ", "\n"}

RECURSIVE LStrip(_)
LStrip(s) == IF Len(s) > 0 /\ IsSpace(s[1]) THEN LStrip(Tail(s)) ELSE s

RECURSIVE RStrip(_)
RStrip(s) ==
    IF Len(s) > 0 /\ IsSpace(s[Len(s)]) THEN RStrip(SubSeq(s, 1, Len(s) - 1)) ELSE s

\* the text as it is, white space kept
NoStrip(s) == s

\* str.strip()
Strip(s) == RStrip(LStrip(s))

\* ---------------------------------------------------------------- dicts
EmptyDict == <<>>
Has(r, k) == k \in DOMAIN r
Put(r, k, val) == [f \in DOMAIN r \cup {k} |-> IF f = k THEN val ELSE r[f]]
\* dict.get(k, default)
Get(r, k, default) == IF Has(r, k) THEN r[k] ELSE default

\* (author, playlist, video) positions in the order of the three nested loops
Paths(store) ==
    Concat([ai \in 1..Len(store) |->
        Concat([pi \in 1..Len(store[ai].v) |->
            [vi \in 1..Len(store[ai].v[pi].v) |-> <<ai, pi, vi>>]])])

Rec(store, p) == store[p[1]].v[p[2]].v[p[3]].v
SetRec(store, p, r) == [store EXCEPT ![p[1]].v[p[2]].v[p[3]].v = r]
\* the record replaced by one that has the field alone
SetFieldOnly(store, p, field, val) == SetRec(store, p, [f \in {field} |-> val])

\* self.data[...][...][...][field] = val
SetField(store, p, field, val) == SetRec(store, p, Put(Rec(store, p), field, val))

\* ---------------------------------------------------------------- the file
ValidFmts == {"indent4", "compact"}
\* json.dump(self.data, file, ensure_ascii=False, indent=4)
Dump(store) == [fmt |-> "indent4", store |-> store]
Truncated == [fmt |-> "empty", store |-> <<>>]
Garbage == [fmt |-> "garbage", store |-> <<>>]
Parses(f) == f.fmt \in ValidFmts

\* ---------------------------------------------------------------- stores
OldCaptions == <<"o", "l", "d">>
OldTopic == <<"t", "0">>
OldComments == <<[Timestamp |-> <<"0">>, Comment |-> <<"z">>]>>
Title == <<"T">>
TwoSentences == <<" ", "a", ".", " ", "b", ".", "\n">>
Blank == <<" ", "\n">>

FullRecord == [captions |-> OldCaptions, comments |-> OldComments,
               topic |-> OldTopic, title |-> Title]

Pool(s) ==
    IF s \in Fetchers
    THEN {EmptyDict, FullRecord}
    ELSE {[title |-> Title],
          [captions |-> Blank, topic |-> OldTopic],
          [captions |-> TwoSentences, topic |-> OldTopic, comments |-> OldComments]}

RECURSIVE Sum(_)
Sum(s) == IF Len(s) = 0 THEN 0 ELSE Head(s) + Sum(Tail(s))

\* a skeleton gives, per author and playlist, the number of videos
Total(skel) == Sum([ai \in 1..Len(skel) |-> Sum(skel[ai])])

\* t videos: in one playlist; one per playlist of one author; one per author;
\* in the last playlist of a store that has an author without playlists and
\* a playlist without videos
SkeletonsOf(t) ==
    {<< <<t>> >>,
     << [i \in 1..t |-> 1] >>,
     [i \in 1..t |-> <<1>>],
     << <<>>, <<0, t>> >>}

Skeletons(n) == UNION {SkeletonsOf(t) : t \in 0..n}

Offset(skel, ai, pi) ==
    Sum([a \in 1..(ai - 1) |-> Sum(skel[a])]) + Sum(SubSeq(skel[ai], 1, pi - 1))

Key(prefix, i) == prefix \o ToString(i)

Build(skel, recs) ==
    [ai \in 1..Len(skel) |->
        [k |-> Key("author", ai),
         v |-> [pi \in 1..Len(skel[ai]) |->
                [k |-> Key("PL", pi),
                 v |-> [vi \in 1..skel[ai][pi] |->
                        [k |-> Key("vid", vi),
                         v |-> recs[Offset(skel, ai, pi) + vi]]]]]]]

\* the stores of at most n videos with records from pool
Stores(pool, n) ==
    UNION {{Build(sk, recs) : recs \in [1..Total(sk) -> pool]} : sk \in Skeletons(n)}

\* what the file can hold when a script starts
Files(fmts, pool, n) ==
    {[fmt |-> f, store |-> s] : f \in fmts, s \in Stores(pool, n)} \cup {Garbage}

\* the layout of the file a script is started on
InitialFmts == {"compact"}

\* ---------------------------------------------------------------- external services
\* YouTubeTranscriptApi.get_transcript: a list of timed segments, or an exception
Segment(t) == [text |-> <<t>>, start |-> 0]
Transcripts == {<<>>, <<Segment("x"), Segment("y")>>}
\* what a call of an external library gives back: a value, or an exception
Raise == [ok |-> FALSE]
Returns(S) == {[ok |-> TRUE, val |-> v] : v \in S}

\* commentThreads().list(...).execute(): one page, or an exception
None == "<None>"
Item(ts, txt) ==
    [snippet |-> [topLevelComment |-> [snippet |->
        [publishedAt |-> <<ts>>, textDisplay |-> <<txt>>]]]]
OnePage == <<Item("1", "p")>>
TwoItems == <<Item("2", "q"), Item("1", "p")>>
LastPages == {[items |-> OnePage], [items |-> TwoItems, nextPageToken |-> ""]}
MorePages == {[items |-> OnePage, nextPageToken |-> "t1"],
              [items |-> TwoItems, nextPageToken |-> "t2"]}
\* `next_page_token is None`
FalsyNoneOnly(tok) == tok = None

\* `not next_page_token`
Falsy(tok) == tok \in {None, ""}

\* ---------------------------------------------------------------- initial states
InitFor(active, files) ==
    /\ file \in files
    /\ file0 = file
    /\ pc = [p \in Scripts |-> IF p \in active THEN "init" ELSE "off"]
    /\ data = [p \in Scripts |-> <<>>]
    /\ loaded = [p \in Scripts |-> <<>>]
    /\ loadErr = [p \in Scripts |-> FALSE]
    /\ saveCalls = [p \in Scripts |-> 0]
    /\ saveErr = [p \in Scripts |-> FALSE]
    /\ events = <<>>
    /\ pos = [p \in Fetchers |-> 1]
    /\ attempts = <<>>
    /\ fetched = <<>>
    /\ queried = <<>>
    /\ reqTokens = <<>>
    /\ respTokens = <<>>
    /\ pages = <<>>
    /\ all_comments = <<>>
    /\ next_page_token = None
    /\ captions_list = [p \in Modelers |-> <<>>]
    /\ video_id_map = [p \in Modelers |-> <<>>]
    /\ W = <<>>
    /\ kmeans_labels = <<>>
    /\ topic_keywords = [p \in Modelers |-> <<>>]

\* one script is started on the file
Init == \E s \in Scripts : InitFor({s}, Files(InitialFmts, Pool(s), MaxVideos))

\* ---------------------------------------------------------------- shared methods
\* as AfterLoop, but with nothing loaded the script stops without saving
AfterLoopSkipEmpty(store, i) ==
    IF Len(store) = 0 THEN "done"
    ELSE IF i > Len(Paths(store)) THEN "save" ELSE "update"

\* where run is after iteration i - 1 of the loop over the videos
AfterLoop(store, i) ==
    IF i > Len(Paths(store)) THEN "save" ELSE "update"

\* __init__: self.data = self.load_data()
load_data(p) ==
    /\ pc[p] = "init"
    /\ LET d == IF Parses(file) THEN file.store ELSE EmptyDict
       IN /\ data' = [data EXCEPT ![p] = d]
          /\ loaded' = [loaded EXCEPT ![p] = d]
          /\ loadErr' = [loadErr EXCEPT ![p] = ~Parses(file)]
          /\ pc' = [pc EXCEPT ![p] = IF p \in Fetchers THEN AfterLoop(d, 1) ELSE "run"]
    /\ events' = Append(events, <<p, "load">>)
    /\ UNCHANGED <<file, file0, saveCalls, saveErr, pos, attempts, fetched>>
    /\ UNCHANGED commentVars
    /\ UNCHANGED topicVars

\* save_data, first half: open(self.json_file, "w") truncates the file, or raises
save_data_open(p) ==
    /\ pc[p] = "save"
    /\ saveCalls' = [saveCalls EXCEPT ![p] = @ + 1]
    /\ \E ok \in BOOLEAN :
        IF ok
        THEN /\ file' = Truncated
             /\ pc' = [pc EXCEPT ![p] = "writing"]
             /\ UNCHANGED <<saveErr, events>>
        ELSE /\ saveErr' = [saveErr EXCEPT ![p] = TRUE]
             /\ pc' = [pc EXCEPT ![p] = "done"]
             /\ events' = Append(events, <<p, "save">>)
             /\ UNCHANGED file
    /\ UNCHANGED <<file0, data, loaded, loadErr, pos, attempts, fetched>>
    /\ UNCHANGED commentVars
    /\ UNCHANGED topicVars

\* save_data, second half: json.dump writes the store and the file is closed,
\* or the write raises and leaves the file truncated
save_data_dump(p) ==
    /\ pc[p] = "writing"
    /\ \E ok \in BOOLEAN :
        IF ok
        THEN /\ file' = Dump(data[p])
             /\ UNCHANGED saveErr
        ELSE /\ saveErr' = [saveErr EXCEPT ![p] = TRUE]
             /\ UNCHANGED file
    /\ pc' = [pc EXCEPT ![p] = "done"]
    /\ events' = Append(events, <<p, "save">>)
    /\ UNCHANGED <<file0, data, loaded, loadErr, saveCalls, pos, attempts, fetched>>
    /\ UNCHANGED commentVars
    /\ UNCHANGED topicVars

\* ---------------------------------------------------------------- YouTubeCaptionUpdater
\* one iteration of the innermost loop of update_captions; after the last
\* one run goes on to save_data
update_captions ==
    /\ pc[Caption] = "update"
    /\ LET p == Paths(data[Caption])[pos[Caption]]
       IN /\ attempts' = Append(attempts, p)
          /\ \E call \in Returns(Transcripts) \cup {Raise} :
             /\ fetched' = Append(fetched, call)
             /\ IF ~call.ok
                THEN UNCHANGED data
                ELSE LET transcript == call.val
                         script == JoinWith(<<"\n">>,
                                     [i \in 1..Len(transcript) |-> transcript[i].text])
                     IN data' = [data EXCEPT ![Caption] = SetField(@, p, "captions", script)]
    /\ pos' = [pos EXCEPT ![Caption] = @ + 1]
    /\ pc' = [pc EXCEPT ![Caption] = AfterLoop(data[Caption], pos'[Caption])]
    /\ UNCHANGED <<file, file0, loaded, loadErr, saveCalls, saveErr, events>>
    /\ UNCHANGED commentVars
    /\ UNCHANGED topicVars

\* ---------------------------------------------------------------- YouTubeCommentExtractor
Snippet(item, video_id) ==
    LET top_comment == item.snippet.topLevelComment.snippet
    IN [Timestamp |-> top_comment.publishedAt,
        Comment |-> top_comment.textDisplay,
        VideoID |-> video_id]

VideoId(store, p) == store[p[1]].v[p[2]].v[p[3]].k

\* the exception is caught around extract_comments and run goes on to save_data
UncaughtSaved(store, i) == "save"

\* run has no handler around extract_comments: an exception of execute()
\* leaves run, whatever the position of the loop
Uncaught(store, i) == "crashed"

\* one request of get_comments_for_video for the video extract_comments is at;
\* when the loop breaks, extract_comments stores the list and moves on
get_comments_for_video ==
    /\ pc[Comment] \in {"update", "paging"}
    /\ LET p == Paths(data[Comment])[pos[Comment]]
           first == pc[Comment] = "update"
           token == IF first THEN None ELSE next_page_token
           sofar == IF first THEN <<>> ELSE all_comments
           sent == IF first THEN <<>> ELSE reqTokens
           got == IF first THEN <<>> ELSE respTokens
           seen == IF first THEN <<>> ELSE pages
       IN /\ queried' = IF first THEN Append(queried, p) ELSE queried
          /\ reqTokens' = Append(sent, token)
          /\ \E call \in
                    Returns(LastPages) \cup {Raise}
                    \cup (IF Len(sent) + 1 < MaxPages THEN Returns(MorePages) ELSE {}) :
                IF ~call.ok
                THEN /\ pc' = [pc EXCEPT ![Comment] = Uncaught(data[Comment], pos[Comment])]
                     /\ all_comments' = sofar
                     /\ next_page_token' = token
                     /\ respTokens' = got
                     /\ pages' = seen
                     /\ UNCHANGED <<data, pos>>
                ELSE LET comment_response == call.val
                         items == comment_response.items
                         all == sofar \o [i \in 1..Len(items) |->
                                            Snippet(items[i], VideoId(data[Comment], p))]
                         tok == Get(comment_response, "nextPageToken", None)
                     IN /\ all_comments' = all
                        /\ next_page_token' = tok
                        /\ respTokens' = Append(got, tok)
                        /\ pages' = Append(seen, items)
                        /\ IF Falsy(tok)
                           THEN /\ data' = [data EXCEPT ![Comment] =
                                    SetField(@, p, "comments",
                                        [i \in 1..Len(all) |->
                                            [Timestamp |-> all[i].Timestamp,
                                             Comment |-> all[i].Comment]])]
                                /\ pos' = [pos EXCEPT ![Comment] = @ + 1]
                                /\ pc' = [pc EXCEPT ![Comment] =
                                            AfterLoop(data[Comment], pos'[Comment])]
                           ELSE /\ pc' = [pc EXCEPT ![Comment] = "paging"]
                                /\ UNCHANGED <<data, pos>>
    /\ UNCHANGED <<file, file0, loaded, loadErr, saveCalls, saveErr, events, attempts, fetched>>
    /\ UNCHANGED topicVars

\* ---------------------------------------------------------------- topic modelers
\* nltk sent_tokenize on stripped text: a sentence ends at a full stop that is
\* followed by white space
EndsSentence(s, i) == s[i] = "." /\ i < Len(s) /\ IsSpace(s[i + 1])

RECURSIVE sent_tokenize(_)
sent_tokenize(s) ==
    IF \E i \in 1..Len(s) : EndsSentence(s, i)
    THEN LET i == CHOOSE j \in 1..Len(s) :
                    EndsSentence(s, j) /\ \A h \in 1..(j - 1) : ~EndsSentence(s, h)
         IN <<SubSeq(s, 1, i)>> \o sent_tokenize(LStrip(SubSeq(s, i + 1, Len(s))))
    ELSE IF Len(s) = 0 THEN <<>> ELSE <<s>>

\* video_data.get("captions", "").strip()
CaptionsOf(store, p) == Strip(Get(Rec(store, p), "captions", <<>>))

\* as NMF_extract_captions, the map entries taken by position in the store
NMF_extract_captions_by_position(store) ==
    LET map == SelectSeq(Paths(store), LAMBDA p : CaptionsOf(store, p) # <<>>)
    IN [captions_list |-> [i \in 1..Len(map) |-> CaptionsOf(store, map[i])],
        video_id_map |-> SubSeq(Paths(store), 1, Len(map))]

\* TopicModeling.extract_captions: one caption and one map entry per video
\* with non-blank captions
NMF_extract_captions(store) ==
    LET map == SelectSeq(Paths(store), LAMBDA p : CaptionsOf(store, p) # <<>>)
    IN [captions_list |-> [i \in 1..Len(map) |-> CaptionsOf(store, map[i])],
        video_id_map |-> map]

\* TopicModelingBERT.extract_captions: one entry per sentence
BERT_extract_captions(store) ==
    LET ps == Paths(store)
        sents(p) == IF CaptionsOf(store, p) # <<>>
                    THEN sent_tokenize(CaptionsOf(store, p)) ELSE <<>>
    IN [captions_list |-> Concat([i \in 1..Len(ps) |-> sents(ps[i])]),
        video_id_map |-> Concat([i \in 1..Len(ps) |->
                            [j \in 1..Len(sents(ps[i])) |-> ps[i]]])]

Topics == 0..(NumTopics - 1)
Word(k) == <<"w", ToString(k)>>
\* the terms the libraries rank first for each topic
TermChoices == {[k \in Topics |-> <<Word(k), Word(0)>>], [k \in Topics |-> <<Word(0)>>]}

\* entries of the weight matrix W
Weights == {0, 1}

Max(S) == CHOOSE m \in S : \A x \in S : x <= m
\* numpy argmax: the first index of the largest entry
argmax(row) ==
    CHOOSE t \in DOMAIN row :
        /\ row[t] = Max({row[u] : u \in DOMAIN row})
        /\ \A u \in DOMAIN row : u < t => row[u] < row[t]

RECURSIVE NMF_assign_topics(_, _, _, _, _)
\* TopicModeling.assign_topics, from entry i of video_id_map on
NMF_assign_topics(store, map, w, keywords, i) ==
    IF i > Len(map) THEN store
    ELSE LET best_topic == argmax(w[i])
         IN NMF_assign_topics(SetField(store, map[i], "topic", keywords[best_topic]),
                              map, w, keywords, i + 1)

RECURSIVE BERT_assign_topics_first(_, _, _, _, _)
\* as BERT_assign_topics, a video keeping the topic of its first sentence
BERT_assign_topics_first(store, map, labels, keywords, i) ==
    IF i > Len(map) THEN store
    ELSE IF \E j \in 1..(i - 1) : map[j] = map[i]
         THEN BERT_assign_topics_first(store, map, labels, keywords, i + 1)
         ELSE BERT_assign_topics_first(
                SetField(store, map[i], "topic", JoinWith(<<" ">>, keywords[labels[i]])),
                map, labels, keywords, i + 1)

RECURSIVE BERT_assign_topics(_, _, _, _, _)
\* TopicModelingBERT.assign_topics, from entry i of video_id_map on
BERT_assign_topics(store, map, labels, keywords, i) ==
    IF i > Len(map) THEN store
    ELSE LET best_topic == labels[i]
             topic_name == JoinWith(<<" ">>, keywords[best_topic])
         IN BERT_assign_topics(SetField(store, map[i], "topic", topic_name),
                               map, labels, keywords, i + 1)

\* TopicModeling.run up to its call of save_data
NMF_run ==
    /\ pc[Nmf] = "run"
    /\ LET ex == NMF_extract_captions(data[Nmf])
           n == Len(ex.captions_list)
       IN /\ captions_list' = [captions_list EXCEPT ![Nmf] = ex.captions_list]
          /\ video_id_map' = [video_id_map EXCEPT ![Nmf] = ex.video_id_map]
          /\ IF n = 0
             THEN /\ pc' = [pc EXCEPT ![Nmf] = "done"]
                  /\ UNCHANGED <<data, W, topic_keywords>>
             ELSE \E call \in {Raise} \cup Returns(
                        [terms : TermChoices, W : [1..n -> [Topics -> Weights]]]) :
                    IF ~call.ok
                    THEN /\ pc' = [pc EXCEPT ![Nmf] = "crashed"]
                         /\ UNCHANGED <<data, W, topic_keywords>>
                    ELSE LET keywords == [k \in Topics |->
                                            JoinWith(<<" ">>, call.val.terms[k])]
                         IN /\ topic_keywords' = [topic_keywords EXCEPT ![Nmf] = keywords]
                            /\ W' = call.val.W
                            /\ data' = [data EXCEPT ![Nmf] = NMF_assign_topics(
                                            @, ex.video_id_map, call.val.W, keywords, 1)]
                            /\ pc' = [pc EXCEPT ![Nmf] = "save"]
    /\ UNCHANGED <<file, file0, loaded, loadErr, saveCalls, saveErr, events,
                   pos, attempts, fetched, kmeans_labels>>
    /\ UNCHANGED commentVars

\* TopicModelingBERT.run up to its call of save_data; KMeans raises when it
\* gets fewer sentences than clusters
BERT_run ==
    /\ pc[Bert] = "run"
    /\ LET ex == BERT_extract_captions(data[Bert])
           n == Len(ex.captions_list)
       IN /\ captions_list' = [captions_list EXCEPT ![Bert] = ex.captions_list]
          /\ video_id_map' = [video_id_map EXCEPT ![Bert] = ex.video_id_map]
          /\ IF n = 0
             THEN /\ pc' = [pc EXCEPT ![Bert] = "done"]
                  /\ UNCHANGED <<data, kmeans_labels, topic_keywords>>
             ELSE \E call \in {Raise} \cup
                        (IF n >= NumTopics
                         THEN Returns([terms : TermChoices, labels : [1..n -> Topics]])
                         ELSE {}) :
                    IF ~call.ok
                    THEN /\ pc' = [pc EXCEPT ![Bert] = "crashed"]
                         /\ UNCHANGED <<data, kmeans_labels, topic_keywords>>
                    ELSE /\ topic_keywords' = [topic_keywords EXCEPT ![Bert] = call.val.terms]
                         /\ kmeans_labels' = call.val.labels
                         /\ data' = [data EXCEPT ![Bert] = BERT_assign_topics(
                                        @, ex.video_id_map, call.val.labels,
                                        call.val.terms, 1)]
                         /\ pc' = [pc EXCEPT ![Bert] = "save"]
    /\ UNCHANGED <<file, file0, loaded, loadErr, saveCalls, saveErr, events,
                   pos, attempts, fetched, W>>
    /\ UNCHANGED commentVars

\* ---------------------------------------------------------------- specifications
\* any one of the four scripts, run alone on the file
Next ==
    \/ \E p \in Scripts : load_data(p)
    \/ update_captions
    \/ get_comments_for_video
    \/ NMF_run
    \/ BERT_run
    \/ \E p \in Scripts : save_data_open(p)
    \/ \E p \in Scripts : save_data_dump(p)

Spec == Init /\ [][Next]_vars

\* one of the two fetchers alone
NextFetchers ==
    \/ \E p \in Fetchers : load_data(p)
    \/ update_captions
    \/ get_comments_for_video
    \/ \E p \in Fetchers : save_data_open(p)
    \/ \E p \in Fetchers : save_data_dump(p)

InitFetchers == \E s \in Fetchers : InitFor({s}, Files(InitialFmts, Pool(s), MaxVideos))
SpecFetchers == InitFetchers /\ [][NextFetchers]_vars

\* one of the two topic modelers alone
NextModelers ==
    \/ \E p \in Modelers : load_data(p)
    \/ NMF_run
    \/ BERT_run
    \/ \E p \in Modelers : save_data_open(p)
    \/ \E p \in Modelers : save_data_dump(p)

InitModelers == \E s \in Modelers : InitFor({s}, Files(InitialFmts, Pool(s), MaxVideos))
SpecModelers == InitModelers /\ [][NextModelers]_vars

\* the two fetchers as two processes on the same file
InitConcurrent == InitFor(Fetchers, Files(InitialFmts, {FullRecord}, MaxShared))
SpecConcurrent == InitConcurrent /\ [][NextFetchers]_vars

\* ---------------------------------------------------------------- properties
Ran(p) == pc[p] \notin {"off", "init"}
LoopOver(p) == pc[p] \in {"save", "writing", "done"}
Saved(p) == pc[p] = "done" /\ saveCalls[p] = 1 /\ ~saveErr[p]

\* field f is absent from both records or has the same value in both
SameField(r1, r2, f) == (Has(r1, f) <=> Has(r2, f)) /\ (Has(r1, f) => r1[f] = r2[f])

\* the segment texts, each but the first after a newline
Lines(transcript) ==
    Concat([i \in 1..Len(transcript) |->
        IF i = 1 THEN transcript[i].text ELSE <<"\n">> \o transcript[i].text])

\* C1: in a run of the caption fetcher every video of the store is attempted
\* exactly once, in store order; a video whose fetch raised keeps its captions
\* (absent or prior value), a video whose fetch returned has the newline-join
\* of its segment texts; and once the loop is over save_data is called and,
\* when its write succeeds, the file holds the resulting store.
C1_CaptionRun ==
    Ran(Caption) =>
        LET paths == Paths(loaded[Caption])
        IN /\ attempts = SubSeq(paths, 1, Len(attempts))
           /\ Len(fetched) = Len(attempts)
           /\ LoopOver(Caption) => attempts = paths
           /\ \A i \in 1..Len(attempts) :
                LET r == Rec(data[Caption], attempts[i])
                    r0 == Rec(loaded[Caption], attempts[i])
                IN IF fetched[i].ok
                   THEN Has(r, "captions") /\ r["captions"] = Lines(fetched[i].val)
                   ELSE SameField(r, r0, "captions")
           /\ pc[Caption] = "done" =>
                /\ saveCalls[Caption] = 1
                /\ ~saveErr[Caption] => file = Dump(data[Caption])

\* a finished caption run in which one fetch raised on a video with prior
\* captions, another returned two segments, and the file was written
C1_Witness ==
    /\ Saved(Caption)
    /\ \E i, j \in 1..Len(fetched) :
        /\ ~fetched[i].ok
        /\ Has(Rec(loaded[Caption], attempts[i]), "captions")
        /\ fetched[j].ok
        /\ Len(fetched[j].val) = 2
    /\ file = Dump(data[Caption])
    /\ file # file0

\* the last request of the comment fetcher raised
RequestRaised == Len(reqTokens) > Len(respTokens)

\* C2: when a page request of the comment fetcher raises, run is left by the
\* exception: only the videos up to the failing one have been queried,
\* save_data has not been called and the file is what it was before the run.
C2_CommentAbort ==
    RequestRaised =>
        /\ pc[Comment] = "crashed"
        /\ queried = SubSeq(Paths(loaded[Comment]), 1, pos[Comment])
        /\ saveCalls[Comment] = 0
        /\ file = file0

\* the request for the second video raised after the comments of the first
\* had been collected in memory
C2_Witness ==
    /\ RequestRaised
    /\ pos[Comment] = 2
    /\ Has(Rec(data[Comment], queried[1]), "comments")
    /\ data[Comment] # loaded[Comment]
    /\ file = file0

\* the {Timestamp, Comment} pairs of the items of the pages, in page and item order
Pairs(pgs) ==
    Concat([i \in 1..Len(pgs) |->
        [j \in 1..Len(pgs[i]) |->
            [Timestamp |-> pgs[i][j].snippet.topLevelComment.snippet.publishedAt,
             Comment |-> pgs[i][j].snippet.topLevelComment.snippet.textDisplay]]])

NoToken(tok) == tok = None \/ tok = ""

\* C3: for the video being fetched, the first request carries no page token,
\* each later request carries the token of the previous response, only the
\* last response can be without token; after a response without token the
\* loop is over and the video's comments are the pairs of all fetched pages,
\* after a response with a token the loop goes on.
C3_Pagination ==
    /\ Len(reqTokens) > 0 => reqTokens[1] = None
    /\ \A i \in 2..Len(reqTokens) : reqTokens[i] = respTokens[i - 1]
    /\ \A i \in 1..(Len(respTokens) - 1) : ~NoToken(respTokens[i])
    /\ Len(pages) = Len(respTokens)
    /\ (Len(respTokens) > 0 /\ ~RequestRaised) =>
        IF NoToken(respTokens[Len(respTokens)])
        THEN /\ pc[Comment] # "paging"
             /\ pos[Comment] = Len(queried) + 1
             /\ Rec(data[Comment], queried[Len(queried)])["comments"] = Pairs(pages)
        ELSE /\ pc[Comment] = "paging"
             /\ pos[Comment] = Len(queried)

\* a video with prior comments whose two pages have been fetched, the second
\* ending the loop with an empty token
C3_Witness ==
    /\ Len(pages) = 2
    /\ respTokens[2] = ""
    /\ Len(queried) > 0
    /\ Has(Rec(loaded[Comment], queried[Len(queried)]), "comments")
    /\ Len(Rec(data[Comment], queried[Len(queried)])["comments"]) = 3

\* no record of the store has captions with a character that is not white space
NoCaptions(store) ==
    \A i \in 1..Len(Paths(store)) :
        LET r == Rec(store, Paths(store)[i])
        IN Has(r, "captions") => \A j \in 1..Len(r["captions"]) : IsSpace(r["captions"][j])

\* C4: a topic modeler that loaded a store without non-blank captions returns
\* without calling save_data and without changing a record, and the file is
\* unchanged.
C4_NoCaptionsNoWrite ==
    \A p \in Modelers :
        (Ran(p) /\ NoCaptions(loaded[p])) =>
            /\ pc[p] \in {"run", "done"}
            /\ saveCalls[p] = 0
            /\ data[p] = loaded[p]
            /\ file = file0

\* a modeler has returned on a store whose only captions are white space
C4_Witness ==
    \E p \in Modelers :
        /\ pc[p] = "done"
        /\ NoCaptions(loaded[p])
        /\ \E i \in 1..Len(Paths(loaded[p])) : Has(Rec(loaded[p], Paths(loaded[p])[i]), "captions")
        /\ file = file0

\* the entries of video_id_map that belong to the video at path
EntriesOf(map, path) == {i \in 1..Len(map) : map[i] = path}

\* C5: once the embedding modeler has assigned topics, every video with a
\* caption sentence has as topic the space-joined keywords of the cluster of
\* its last sentence.
C5_LastSentenceWins ==
    LoopOver(Bert) =>
        \A i \in 1..Len(Paths(data[Bert])) :
            LET path == Paths(data[Bert])[i]
                mine == EntriesOf(video_id_map[Bert], path)
            IN mine # {} =>
                /\ Has(Rec(data[Bert], path), "topic")
                /\ Rec(data[Bert], path)["topic"] =
                        JoinWith(<<" ">>, topic_keywords[Bert][kmeans_labels[Max(mine)]])

\* a video of two sentences in different clusters with different keywords
\* carries the keywords of the second
C5_Witness ==
    /\ LoopOver(Bert)
    /\ \E i \in 1..(Len(video_id_map[Bert]) - 1) :
        /\ video_id_map[Bert][i] = video_id_map[Bert][i + 1]
        /\ kmeans_labels[i] # kmeans_labels[i + 1]
        /\ topic_keywords[Bert][kmeans_labels[i]] # topic_keywords[Bert][kmeans_labels[i + 1]]
        /\ Rec(data[Bert], video_id_map[Bert][i])["topic"] =
                JoinWith(<<" ">>, topic_keywords[Bert][kmeans_labels[i + 1]])

\* the paths of the videos with a caption character that is not white space
Captioned(store) ==
    SelectSeq(Paths(store),
        LAMBDA path : /\ Has(Rec(store, path), "captions")
                      /\ \E j \in 1..Len(Rec(store, path)["captions"]) :
                            ~IsSpace(Rec(store, path)["captions"][j]))

\* C6: once the TF-IDF modeler has assigned topics, the i-th video with
\* non-blank captions has the keyword string of a topic of maximal weight in
\* row i of W, and every other video has its record as loaded.
C6_RowArgmax ==
    LoopOver(Nmf) =>
        LET caps == Captioned(loaded[Nmf])
        IN /\ Len(caps) = Len(W)
           /\ \A i \in 1..Len(caps) :
                \E t \in Topics :
                    /\ \A u \in Topics : W[i][u] <= W[i][t]
                    /\ Rec(data[Nmf], caps[i])["topic"] = topic_keywords[Nmf][t]
           /\ \A i \in 1..Len(Paths(loaded[Nmf])) :
                LET path == Paths(loaded[Nmf])[i]
                IN (\A j \in 1..Len(caps) : caps[j] # path) =>
                        Rec(data[Nmf], path) = Rec(loaded[Nmf], path)

\* a video without captions comes before one with captions, whose row of W
\* has its largest weight at the second topic
C6_Witness ==
    /\ LoopOver(Nmf)
    /\ Len(Paths(loaded[Nmf])) = 2
    /\ Captioned(loaded[Nmf]) = <<Paths(loaded[Nmf])[2]>>
    /\ W[1][0] < W[1][1]
    /\ topic_keywords[Nmf][0] # topic_keywords[Nmf][1]
    /\ Rec(data[Nmf], Paths(loaded[Nmf])[2])["topic"] = topic_keywords[Nmf][1]
    /\ Rec(data[Nmf], Paths(loaded[Nmf])[1]) = Rec(loaded[Nmf], Paths(loaded[Nmf])[1])

\* the field a script writes
Owned(p) == IF p = Caption THEN "captions" ELSE IF p = Comment THEN "comments" ELSE "topic"

\* the author, playlist and video keys of a store, in order
Keys(store) ==
    [ai \in 1..Len(store) |->
        [k |-> store[ai].k,
         v |-> [pi \in 1..Len(store[ai].v) |->
                [k |-> store[ai].v[pi].k,
                 v |-> [vi \in 1..Len(store[ai].v[pi].v) |-> store[ai].v[pi].v[vi].k]]]]]

\* s1 has the keys of s0 and its records differ from those of s0 in field f at most
OnlyFieldDiffers(s0, s1, f) ==
    /\ Keys(s1) = Keys(s0)
    /\ \A ai \in 1..Len(s0) :
        \A pi \in 1..Len(s0[ai].v) :
            \A vi \in 1..Len(s0[ai].v[pi].v) :
                LET r0 == s0[ai].v[pi].v[vi].v
                    r1 == s1[ai].v[pi].v[vi].v
                IN \A g \in (DOMAIN r0 \cup DOMAIN r1) \ {f} : SameField(r1, r0, g)

\* C7: a script run alone changes only the field it owns: the store in memory
\* and the store it saves have the author, playlist and video keys of the
\* loaded store, and every other field of every record as loaded.
C7_OwnFieldOnly ==
    \A p \in Scripts :
        Ran(p) =>
            /\ OnlyFieldDiffers(loaded[p], data[p], Owned(p))
            /\ Saved(p) => Parses(file) /\ OnlyFieldDiffers(loaded[p], file.store, Owned(p))

\* a script has saved a store of two videos that differs from the loaded one,
\* with a record that has fields of the other scripts
C7_Witness ==
    \E p \in Scripts :
        /\ Saved(p)
        /\ file.store # loaded[p]
        /\ Len(Paths(loaded[p])) = 2
        /\ \E i \in 1..2 :
            LET r0 == Rec(loaded[p], Paths(loaded[p])[i])
                r1 == Rec(file.store, Paths(loaded[p])[i])
            IN r1 # r0 /\ DOMAIN r0 \ {Owned(p)} # {}

\* C8: neither fetcher is ever left by an uncaught exception.
C8_AlwaysEndsNormally == \A p \in Fetchers : pc[p] # "crashed"

\* the place of an event in the order of loads and finished saves
At(p, what) == CHOOSE i \in 1..Len(events) : events[i] = <<p, what>>
BothSaved == \A p \in Fetchers : Saved(p)
FirstSaver == CHOOSE p \in Fetchers : \A q \in Fetchers : At(p, "save") <= At(q, "save")
SecondSaver == CHOOSE p \in Fetchers : p # FirstSaver
\* the first script had finished saving when the second loaded
Serial == At(FirstSaver, "save") < At(SecondSaver, "load")

\* C9: when both fetchers have run on the same file and saved, then, if one
\* finished saving before the other loaded, the file has the keys and the
\* owned fields of both as they had them in memory; if both loaded before
\* either had saved, the file has in the field of the first saver what the
\* file had before the runs.
C9_LostUpdate ==
    BothSaved =>
        /\ Parses(file)
        /\ IF Serial
           THEN /\ Keys(file.store) = Keys(data[FirstSaver])
                /\ \A i \in 1..Len(Paths(file.store)) :
                    LET path == Paths(file.store)[i]
                    IN /\ SameField(Rec(file.store, path), Rec(data[FirstSaver], path),
                                    Owned(FirstSaver))
                       /\ SameField(Rec(file.store, path), Rec(data[SecondSaver], path),
                                    Owned(SecondSaver))
           ELSE \A i \in 1..Len(Paths(file.store)) :
                    LET path == Paths(file.store)[i]
                    IN SameField(Rec(file.store, path), Rec(file0.store, path),
                                 Owned(FirstSaver))

\* both fetchers loaded before either saved, and the file written last misses
\* what the first saver had put in its field
C9_Witness ==
    /\ BothSaved
    /\ ~Serial
    /\ Keys(file.store) = Keys(data[FirstSaver])
    /\ \E i \in 1..Len(Paths(file.store)) :
        LET path == Paths(file.store)[i]
        IN ~SameField(Rec(file.store, path), Rec(data[FirstSaver], path), Owned(FirstSaver))

\* C10: after a failed load the store in memory is empty; a fetcher then
\* processes no video and still calls save_data, which, when its write
\* succeeds, replaces the content of the file by the empty store; a topic
\* modeler returns without calling save_data and the file is unchanged.
C10_LoadFailure ==
    \A p \in Scripts :
        loadErr[p] =>
            /\ data[p] = EmptyDict
            /\ IF p \in Fetchers
               THEN /\ attempts = <<>>
                    /\ queried = <<>>
                    /\ LoopOver(p)
                    /\ pc[p] = "done" =>
                        /\ saveCalls[p] = 1
                        /\ ~saveErr[p] => file = Dump(EmptyDict) /\ file # file0
               ELSE /\ pc[p] \in {"run", "done"}
                    /\ saveCalls[p] = 0
                    /\ file = file0

\* a fetcher that could not parse the file has overwritten it with the empty store
C10_Witness ==
    \E p \in Fetchers :
        /\ loadErr[p]
        /\ Saved(p)
        /\ file0 = Garbage
        /\ file = Dump(EmptyDict)

====
